---- MODULE Spec2Model ----
(***************************************************************************)
(* Model of server.js: the getMenuTool lookup function and the             *)
(* POST /api/chat request handler.                                         *)
(*                                                                         *)
(* JavaScript strings are TLA+ strings; a character is a string of length  *)
(* one.  JavaScript values are records tagged by the field t, each type    *)
(* carrying its payload in a field of its own name.                        *)
(***************************************************************************)
EXTENDS Integers, Sequences, FiniteSets, TLC

VARIABLES pc, input, result, trace, running, toolPc, category, toolResult

vars == <<pc, input, result, trace, running, toolPc, category, toolResult>>

handlerVars == <<pc, input, result, trace, running>>
toolVars == <<toolPc, category, toolResult>>

(***************************************************************************)
(* Bounds                                                                  *)
(***************************************************************************)
NumReqs == 2
MaxSteps == 2
MaxPad == 2

Reqs == 1..NumReqs

(***************************************************************************)
(* JavaScript values                                                       *)
(***************************************************************************)
Undefined == [t |-> "undefined"]
Null == [t |-> "null"]
Str(s) == [t |-> "string", s |-> s]
Num(n) == [t |-> "number", n |-> n]
Bool(b) == [t |-> "boolean", b |-> b]
Obj(name) == [t |-> "object", o |-> name]
Fn(name) == [t |-> "function", f |-> name]
Arr(a) == [t |-> "array", a |-> a]

\* ToBoolean, as applied by !x, x && y, x || y
Truthy(x) ==
  CASE x.t = "undefined" -> FALSE
    [] x.t = "null" -> FALSE
    [] x.t = "string" -> x.s # ""
    [] x.t = "number" -> x.n # 0
    [] x.t = "boolean" -> x.b
    [] OTHER -> TRUE

(***************************************************************************)
(* String primitives                                                       *)
(***************************************************************************)
UpperChars == "ABCDEFGHIJKLMNOPQRSTUVWXYZ"
LowerChars == "abcdefghijklmnopqrstuvwxyz"
WhiteSpace == {" ", "\t", "\n", "\r"}

CharAt(s, i) == SubSeq(s, i, i)

LowerChar(c) ==
  IF \E i \in 1..Len(UpperChars) : CharAt(UpperChars, i) = c
  THEN CharAt(LowerChars, CHOOSE i \in 1..Len(UpperChars) : CharAt(UpperChars, i) = c)
  ELSE c

RECURSIVE ToLowerCase(_)
ToLowerCase(s) ==
  IF s = "" THEN "" ELSE LowerChar(Head(s)) \o ToLowerCase(Tail(s))

RECURSIVE TrimStart(_)
TrimStart(s) ==
  IF s # "" /\ Head(s) \in WhiteSpace THEN TrimStart(Tail(s)) ELSE s

RECURSIVE TrimEnd(_)
TrimEnd(s) ==
  IF s # "" /\ CharAt(s, Len(s)) \in WhiteSpace
  THEN TrimEnd(SubSeq(s, 1, Len(s) - 1))
  ELSE s

Trim(s) == TrimEnd(TrimStart(s))

Includes(s, sub) ==
  \E i \in 0..(Len(s) - Len(sub)) : SubSeq(s, i + 1, i + Len(sub)) = sub

(***************************************************************************)
(* POST /api/chat                                                          *)
(***************************************************************************)
MsgInvalid == "Please provide a valid input."
MsgIncomplete == "I couldn't process your request. Please try asking for a specific menu like 'breakfast menu' or 'evening snacks menu'."
MsgError == "Sorry, something went wrong. Please try again with a specific menu request."
Sentinel == "agent stopped due to max iterations"

\* values a client can put in the input field of the JSON body
\* (Undefined: the field is missing)
InputValues ==
  { Undefined, Null, Num(0),
    Str(""), Str("  "), Str(" \t\n"),
    Str(" what's for dinner?\n"),
    Num(42), Obj("{}") }

\* AgentResult.output
Outputs ==
  { Undefined, Str(""),
    Str("Biryani, Raita, Papad, Salad"),
    Str("Sorry: agent stopped due to max iterations.") }

\* one element of AgentResult.intermediateSteps
StepValues ==
  { [action |-> Obj("toolCall"), observation |-> Str("Samosa, Chutney, Tea, Biscuits")],
    [action |-> Obj("toolCall"), observation |-> Str("")],
    [action |-> Obj("toolCall")] }

\* the steps before the last one: with an observation, or without
EarlierStepValues ==
  { [action |-> Obj("toolCall"), observation |-> Str("Paratha, Tea, Fruits, Bread with Butter")],
    [action |-> Obj("toolCall")] }

RECURSIVE SeqsUpTo(_, _)
SeqsUpTo(S, n) ==
  IF n = 0 THEN {<< >>}
  ELSE LET shorter == SeqsUpTo(S, n - 1)
       IN shorter \cup {Append(q, x) : q \in shorter, x \in S}

\* response.intermediateSteps: absent, or an array of at most MaxSteps steps
IntermediateSteps ==
  {Undefined} \cup {Arr(<< >>)}
    \cup {Arr(Append(q, x)) : q \in SeqsUpTo(EarlierStepValues, MaxSteps - 1), x \in StepValues}

AgentResults ==
  { [output |-> o, intermediateSteps |-> st] : o \in Outputs, st \in IntermediateSteps }

\* what executor.invoke can throw
Errors ==
  { [t |-> "error", name |-> "Error", message |-> "[GoogleGenerativeAI Error]: API key not valid"],
    [t |-> "error", name |-> "FetchError", message |-> "ECONNREFUSED generativelanguage.googleapis.com"] }

NoResult == [t |-> "none"]

\* property read obj.key: undefined when the key is absent
Get(obj, key) == IF key \in DOMAIN obj THEN obj[key] ELSE Undefined

\* JSON.stringify of an object drops the properties whose value is undefined or a function
Json(obj) ==
  [k \in {k2 \in DOMAIN obj : obj[k2].t \notin {"undefined", "function"}} |-> obj[k]]

\* the effects of one request, in the order the handler produces them
Log(level, label, arg) == [ev |-> "console", level |-> level, label |-> label, arg |-> arg]
Invoke(arg) == [ev |-> "invoke", arg |-> arg]
Send(by, status, body) == [ev |-> "send", by |-> by, status |-> status, body |-> body]

\* res.status(status).json(obj)
ResJson(status, obj) == Send("handler", status, Json(obj))

IsSend(e) == e.ev = "send"
IsInvoke(e) == e.ev = "invoke"
IsConsole(e) == e.ev = "console"

Responses(r) == SelectSeq(trace[r], IsSend)
Invocations(r) == SelectSeq(trace[r], IsInvoke)
Console(r) == SelectSeq(trace[r], IsConsole)

Init ==
  /\ pc = [r \in Reqs |-> "idle"]
  /\ input = [r \in Reqs |-> Undefined]
  /\ result = [r \in Reqs |-> NoResult]
  /\ trace = [r \in Reqs |-> << >>]
  /\ running = TRUE
  /\ toolPc = "idle"
  /\ category = ""
  /\ toolResult = Undefined

\* the blank test without the trim
Validate_NoTrim(userInput) ==
  IF ~Truthy(userInput) THEN "invalid"
  ELSE IF userInput.t # "string" THEN "throw"
  ELSE IF userInput.s = "" THEN "invalid"
  ELSE "valid"

\* line 97: !userInput || userInput.trim() === ""
\* "throw": userInput is truthy and has no trim method, the call is a TypeError
Validate(userInput) ==
  IF ~Truthy(userInput) THEN "invalid"
  ELSE IF userInput.t # "string" THEN "throw"
  ELSE IF Trim(userInput.s) = "" THEN "invalid"
  ELSE "valid"

\* lines 94-101, falsy or blank input: 400 and return
HandleInvalid(r) ==
  /\ running
  /\ pc[r] = "idle"
  /\ \E userInput \in InputValues :
       /\ Validate(userInput) = "invalid"
       /\ input' = [input EXCEPT ![r] = userInput]
       /\ trace' = [trace EXCEPT ![r] =
                      @ \o << Log("log", "User input:", userInput),
                              ResJson(400, [output |-> Str(MsgInvalid)]) >>]
       /\ pc' = [pc EXCEPT ![r] = "done"]
  /\ UNCHANGED <<result, running, toolVars>>

\* lines 94-104, non-blank string input: executor.invoke is called and awaited
HandleInvoke(r) ==
  /\ running
  /\ pc[r] = "idle"
  /\ \E userInput \in InputValues :
       /\ Validate(userInput) = "valid"
       /\ input' = [input EXCEPT ![r] = userInput]
       /\ trace' = [trace EXCEPT ![r] =
                      @ \o << Log("log", "User input:", userInput),
                              Invoke([input |-> userInput]) >>]
       /\ pc' = [pc EXCEPT ![r] = "awaiting"]
  /\ UNCHANGED <<result, running, toolVars>>

\* lines 94-97, truthy input that is not a string: the TypeError is thrown
\* outside the try block and the promise returned by the async handler rejects
HandleThrow(r) ==
  /\ running
  /\ pc[r] = "idle"
  /\ \E userInput \in InputValues :
       /\ Validate(userInput) = "throw"
       /\ input' = [input EXCEPT ![r] = userInput]
       /\ trace' = [trace EXCEPT ![r] = @ \o << Log("log", "User input:", userInput) >>]
       /\ pc' = [pc EXCEPT ![r] = "rejected"]
  /\ UNCHANGED <<result, running, toolVars>>

\* Nothing in server.js handles the rejection of the handler's promise; what
\* follows depends on the express and node versions the server is run with.
\* express 4, node reporting unhandled rejections as a warning: the request
\* is never answered
RejectionIgnored(r) ==
  /\ running
  /\ pc[r] = "rejected"
  /\ pc' = [pc EXCEPT ![r] = "hung"]
  /\ UNCHANGED <<input, result, trace, running, toolVars>>

\* express 4, node 15 and later: the unhandled rejection ends the process
RejectionCrash(r) ==
  /\ running
  /\ pc[r] = "rejected"
  /\ pc' = [pc EXCEPT ![r] = "hung"]
  /\ running' = FALSE
  /\ UNCHANGED <<input, result, trace, toolVars>>

\* express 5: the rejection goes to the default error handler, which answers
\* 500 with an HTML page
RejectionForwarded(r) ==
  /\ running
  /\ pc[r] = "rejected"
  /\ trace' = [trace EXCEPT ![r] =
                 Append(@, Send("framework", 500, [html |-> Str("Internal Server Error")]))]
  /\ pc' = [pc EXCEPT ![r] = "done"]
  /\ UNCHANGED <<input, result, running, toolVars>>

\* the fallback without the test of lastStep.observation
Interpret_ObservationUnchecked(response) ==
  LET output == Get(response, "output")
      steps == Get(response, "intermediateSteps")
      lastStep == steps.a[Len(steps.a)]
  IN IF Truthy(output) /\ ~Includes(output.s, Sentinel)
     THEN ResJson(200, [output |-> output])
     ELSE IF Truthy(steps) /\ Len(steps.a) > 0
     THEN ResJson(200, [output |-> Get(lastStep, "observation")])
     ELSE ResJson(500, [output |-> Str(MsgIncomplete)])

\* the last observation preferred to the output
Interpret_ObservationFirst(response) ==
  LET output == Get(response, "output")
      steps == Get(response, "intermediateSteps")
      lastStep == steps.a[Len(steps.a)]
  IN IF Truthy(steps) /\ Len(steps.a) > 0 /\ Truthy(Get(lastStep, "observation"))
     THEN ResJson(200, [output |-> Get(lastStep, "observation")])
     ELSE IF Truthy(output) /\ ~Includes(output.s, Sentinel)
     THEN ResJson(200, [output |-> output])
     ELSE ResJson(500, [output |-> Str(MsgIncomplete)])

\* the fallback reading the first step instead of the last
Interpret_FirstStep(response) ==
  LET output == Get(response, "output")
      steps == Get(response, "intermediateSteps")
      firstStep == steps.a[1]
  IN IF Truthy(output) /\ ~Includes(output.s, Sentinel)
     THEN ResJson(200, [output |-> output])
     ELSE IF Truthy(steps) /\ Len(steps.a) > 0 /\ Truthy(Get(firstStep, "observation"))
     THEN ResJson(200, [output |-> Get(firstStep, "observation")])
     ELSE ResJson(500, [output |-> Str(MsgIncomplete)])

\* the fallback reading the latest step that has an observation
Interpret_AnyStep(response) ==
  LET output == Get(response, "output")
      steps == Get(response, "intermediateSteps")
      withObs == {i \in 1..Len(steps.a) : Truthy(Get(steps.a[i], "observation"))}
      latest == CHOOSE i \in withObs : \A j \in withObs : j <= i
  IN IF Truthy(output) /\ ~Includes(output.s, Sentinel)
     THEN ResJson(200, [output |-> output])
     ELSE IF Truthy(steps) /\ withObs # {}
     THEN ResJson(200, [output |-> Get(steps.a[latest], "observation")])
     ELSE ResJson(500, [output |-> Str(MsgIncomplete)])

\* lines 108-123: the response chosen for the value executor.invoke resolved to
Interpret(response) ==
  LET output == Get(response, "output")
      steps == Get(response, "intermediateSteps")
      lastStep == steps.a[Len(steps.a)]
  IN IF Truthy(output) /\ ~Includes(output.s, Sentinel)
     THEN ResJson(200, [output |-> output])
     ELSE IF Truthy(steps) /\ Len(steps.a) > 0 /\ Truthy(Get(lastStep, "observation"))
     THEN ResJson(200, [output |-> Get(lastStep, "observation")])
     ELSE ResJson(500, [output |-> Str(MsgIncomplete)])

\* lines 104-123: executor.invoke fulfils and the handler resumes
ResumeFulfilled(r) ==
  /\ running
  /\ pc[r] = "awaiting"
  /\ \E response \in AgentResults :
       /\ result' = [result EXCEPT ![r] = [t |-> "fulfilled", value |-> response]]
       /\ trace' = [trace EXCEPT ![r] =
                      @ \o << Log("log", "Agent full response:", response),
                              Interpret(response) >>]
       /\ pc' = [pc EXCEPT ![r] = "done"]
  /\ UNCHANGED <<input, running, toolVars>>

\* the catch block answering with the message of the error
Catch_LeakMessage(err) ==
  << Log("error", "Error during agent execution:", err),
     ResJson(500, [output |-> Str(err.message)]) >>

\* lines 125-129: the catch block
Catch(err) ==
  << Log("error", "Error during agent execution:", err),
     ResJson(500, [output |-> Str(MsgError)]) >>

\* lines 104, 125-130: executor.invoke rejects and the handler resumes in the catch block
ResumeRejected(r) ==
  /\ running
  /\ pc[r] = "awaiting"
  /\ \E err \in Errors :
       /\ result' = [result EXCEPT ![r] = [t |-> "rejected", reason |-> err]]
       /\ trace' = [trace EXCEPT ![r] = @ \o Catch(err)]
       /\ pc' = [pc EXCEPT ![r] = "done"]
  /\ UNCHANGED <<input, running, toolVars>>

(***************************************************************************)
(* getMenuTool.func                                                        *)
(***************************************************************************)
\* own properties of the menus object literal
menus ==
  ( "breakfast" :> Str("Paratha, Tea, Fruits, Bread with Butter")
 @@ "lunch" :> Str("Rice, Dal, Curry, Roti, Salad")
 @@ "evening" :> Str("Samosa, Chutney, Tea, Biscuits")
 @@ "evening snacks" :> Str("Samosa, Chutney, Tea, Biscuits")
 @@ "dinner" :> Str("Biryani, Raita, Papad, Salad") )

\* menus is an object literal: the properties it does not own are read from
\* Object.prototype
ObjectPrototype ==
  ( "constructor" :> Fn("Object")
 @@ "__proto__" :> Obj("Object.prototype")
 @@ "toString" :> Fn("toString")
 @@ "toLocaleString" :> Fn("toLocaleString")
 @@ "valueOf" :> Fn("valueOf")
 @@ "hasOwnProperty" :> Fn("hasOwnProperty")
 @@ "isPrototypeOf" :> Fn("isPrototypeOf")
 @@ "propertyIsEnumerable" :> Fn("propertyIsEnumerable")
 @@ "__defineGetter__" :> Fn("__defineGetter__")
 @@ "__defineSetter__" :> Fn("__defineSetter__")
 @@ "__lookupGetter__" :> Fn("__lookupGetter__")
 @@ "__lookupSetter__" :> Fn("__lookupSetter__") )

\* menus[key]
MenusGet(key) ==
  IF key \in DOMAIN menus THEN menus[key]
  ELSE IF key \in DOMAIN ObjectPrototype THEN ObjectPrototype[key]
  ELSE Undefined

MsgNotFound == "Sorry, we couldn't find the menu for that category. Available categories: breakfast, lunch, evening snacks, dinner"

\* the category trimmed but not lower-cased
normalizedCategory_NoLowerCase(c) == Trim(c)

\* the category lower-cased but not trimmed
normalizedCategory_NoTrim(c) == ToLowerCase(c)

\* line 46
normalizedCategory(c) == Trim(ToLowerCase(c))

\* lines 37-58
func(c) ==
  LET n == normalizedCategory(c)
  IN IF Includes(n, "evening") \/ Includes(n, "snack")
     THEN MenusGet("evening")
     ELSE IF Truthy(MenusGet(n)) THEN MenusGet(n) ELSE Str(MsgNotFound)

(***************************************************************************)
(* Category strings the tool is called with                                *)
(***************************************************************************)
UpperChar(c) ==
  IF \E i \in 1..Len(LowerChars) : CharAt(LowerChars, i) = c
  THEN CharAt(UpperChars, CHOOSE i \in 1..Len(LowerChars) : CharAt(LowerChars, i) = c)
  ELSE c

\* the characters of s at the positions from i on, upper-cased where the mask says so
RECURSIVE Cased(_, _, _, _)
Cased(mask, s, i, prev) ==
  IF i > Len(s) THEN ""
  ELSE LET c == CharAt(s, i)
           up == CASE mask = "lower" -> FALSE
                   [] mask = "upper" -> TRUE
                   [] mask = "capital" -> i = 1
                   [] mask = "title" -> prev = " "
                   [] mask = "alternate" -> i % 2 = 0
       IN (IF up THEN UpperChar(c) ELSE c) \o Cased(mask, s, i + 1, c)

CaseMasks == {"lower", "upper", "capital", "title", "alternate"}

CaseVariants(s) == {Cased(m, s, 1, " ") : m \in CaseMasks}

PadChars == {" ", "\t"}

RECURSIVE Pads(_)
Pads(n) ==
  IF n = 0 THEN {""}
  ELSE Pads(n - 1) \cup {p \o c : p \in Pads(n - 1), c \in PadChars}

\* a word in any of the letter cases, with surrounding whitespace
Variants(s) ==
  {pre \o v \o post : pre \in Pads(MaxPad), v \in CaseVariants(s), post \in Pads(MaxPad)}

Words ==
  { "breakfast", "lunch", "dinner", "evening", "evening snacks", "snack",
    "", "brunch", "sna ck", "constructor", "__proto__", "tostring" }

Prefixes == {"", "my ", "pre"}
Suffixes == {"", " menu", "s"}

\* the agent calls the tool with a category string: a word, possibly inside
\* other text, in some letter case, possibly surrounded by whitespace.
\* func has no await: it runs to its return
getMenuTool ==
  /\ toolPc = "idle"
  /\ \E p \in Prefixes, w \in Words, s \in Suffixes, m \in CaseMasks :
       \E pre \in Pads(MaxPad), post \in Pads(MaxPad) :
         LET c == pre \o Cased(m, p \o w \o s, 1, " ") \o post
         IN /\ category' = c
            /\ toolResult' = func(c)
  /\ toolPc' = "returned"
  /\ UNCHANGED handlerVars

MenuNext == getMenuTool

MenuSpec == Init /\ [][MenuNext]_vars

Next ==
  \E r \in Reqs :
    \/ HandleInvalid(r)
    \/ HandleInvoke(r)
    \/ HandleThrow(r)
    \/ RejectionIgnored(r)
    \/ RejectionCrash(r)
    \/ RejectionForwarded(r)
    \/ ResumeFulfilled(r)
    \/ ResumeRejected(r)

Spec == Init /\ [][Next]_vars

\* The runtime acts on a rejected handler promise, and the call to
\* executor.invoke settles.
FairSpec ==
  /\ Spec
  /\ \A r \in Reqs :
       /\ WF_vars(RejectionIgnored(r) \/ RejectionCrash(r) \/ RejectionForwarded(r))
       /\ WF_vars(ResumeFulfilled(r) \/ ResumeRejected(r))

(***************************************************************************)
(* Properties                                                              *)
(***************************************************************************)
\* the response {output: text} sent by the handler with the given status
Answer(status, text) == Send("handler", status, [output |-> Str(text)])

IsBlank(s) == \A i \in 1..Len(s) : CharAt(s, i) \in WhiteSpace

Fulfilled(r) == result[r].t = "fulfilled"
OutputOf(r) == Get(result[r].value, "output")
StepsOf(r) == Get(result[r].value, "intermediateSteps")
LastStepOf(r) == StepsOf(r).a[Len(StepsOf(r).a)]

\* the primary path does not apply: output absent, or signalling max iterations
NoPrimary(r) ==
  \/ OutputOf(r) = Undefined
  \/ /\ OutputOf(r) # Undefined
     /\ Includes(OutputOf(r).s, "agent stopped due to max iterations")

HasSteps(r) == StepsOf(r) # Undefined /\ Len(StepsOf(r).a) > 0

SamosaStep == [action |-> Obj("toolCall"), observation |-> Str("Samosa, Chutney, Tea, Biscuits")]
ParathaStep == [action |-> Obj("toolCall"), observation |-> Str("Paratha, Tea, Fruits, Bread with Butter")]
BareStep == [action |-> Obj("toolCall")]

\* C1: every response the handler sends, on every path, has a body with exactly
\* the field output, and that field is a string.
C1_OutputIsString ==
  \A r \in Reqs : \A i \in 1..Len(trace[r]) :
    (trace[r][i].ev = "send" /\ trace[r][i].by = "handler")
      => /\ DOMAIN trace[r][i].body = {"output"}
         /\ trace[r][i].body.output.t = "string"

\* one request answered from the last observation, another from the catch block
C1_Witness ==
  \E r1, r2 \in Reqs :
    /\ Fulfilled(r1) /\ NoPrimary(r1)
    /\ Responses(r1) = << Answer(200, "Samosa, Chutney, Tea, Biscuits") >>
    /\ result[r2].t = "rejected"
    /\ Len(Responses(r2)) = 1

\* C2: a request whose input is missing or blank is answered 400 with
\* {output: "Please provide a valid input."}, the handler is finished, and
\* executor.invoke is not called for it.
C2_BlankInputRejected ==
  \A r \in Reqs :
    ( /\ pc[r] # "idle"
      /\ \/ input[r] = Undefined
         \/ (input[r].t = "string" /\ IsBlank(input[r].s)) )
    => /\ pc[r] = "done"
       /\ Responses(r) = << Answer(400, "Please provide a valid input.") >>
       /\ Invocations(r) = << >>

C2_Witness ==
  \E r \in Reqs :
    /\ pc[r] = "done"
    /\ input[r] = Str(" \t\n")
    /\ Len(Responses(r)) = 1

\* C3: when executor.invoke throws, the error is logged, then the request is
\* answered 500 with the fixed retry message, which contains nothing of the error.
C3_ThrownErrorAnswer ==
  \A r \in Reqs :
    result[r].t = "rejected"
    => /\ Responses(r) =
            << Answer(500, "Sorry, something went wrong. Please try again with a specific menu request.") >>
       /\ ~Includes(Responses(r)[1].body.output.s, result[r].reason.message)
       /\ \E i, j \in 1..Len(trace[r]) :
            /\ i < j
            /\ trace[r][i].ev = "console"
            /\ trace[r][i].level = "error"
            /\ trace[r][i].arg = result[r].reason
            /\ trace[r][j].ev = "send"

\* two requests failed with different errors and got the same answer
C3_Witness ==
  \E r1, r2 \in Reqs :
    /\ result[r1].t = "rejected"
    /\ result[r2].t = "rejected"
    /\ result[r1].reason # result[r2].reason
    /\ Responses(r1) = Responses(r2)
    /\ Len(Responses(r1)) = 1

\* C4 as stated: an output that is present and does not contain the sentinel
\* is answered 200 with that output.
C4_PresentOutputReturned ==
  \A r \in Reqs :
    ( /\ Fulfilled(r)
      /\ OutputOf(r) # Undefined
      /\ ~Includes(OutputOf(r).s, "agent stopped due to max iterations") )
    => Responses(r) = << Send("handler", 200, [output |-> OutputOf(r)]) >>

\* C4 amended: an output that is present, not the empty string, and does not
\* contain the sentinel is answered 200 with that output unchanged, whatever
\* intermediateSteps contains.
C4_NonEmptyOutputReturned ==
  \A r \in Reqs :
    ( /\ Fulfilled(r)
      /\ OutputOf(r) # Undefined
      /\ OutputOf(r).s # ""
      /\ ~Includes(OutputOf(r).s, "agent stopped due to max iterations") )
    => Responses(r) = << Send("handler", 200, [output |-> OutputOf(r)]) >>

C4_Witness ==
  \E r \in Reqs :
    /\ Fulfilled(r)
    /\ OutputOf(r) = Str("Biryani, Raita, Papad, Salad")
    /\ StepsOf(r) = Arr(<< SamosaStep >>)
    /\ Responses(r) = << Answer(200, "Biryani, Raita, Papad, Salad") >>

\* C5 as stated: when the primary path does not apply and the last of a
\* non-empty intermediateSteps has an observation field, the answer is 200 with
\* that observation.
C5_LastObservationReturned ==
  \A r \in Reqs :
    ( /\ Fulfilled(r)
      /\ NoPrimary(r)
      /\ HasSteps(r)
      /\ "observation" \in DOMAIN LastStepOf(r) )
    => Responses(r) = << Send("handler", 200, [output |-> LastStepOf(r).observation]) >>

\* C5 amended: when the primary path does not apply and the last of a non-empty
\* intermediateSteps has a non-empty observation, the answer is 200 with that
\* observation.
C5_LastNonEmptyObservationReturned ==
  \A r \in Reqs :
    ( /\ Fulfilled(r)
      /\ NoPrimary(r)
      /\ HasSteps(r)
      /\ "observation" \in DOMAIN LastStepOf(r)
      /\ LastStepOf(r).observation.s # "" )
    => Responses(r) = << Send("handler", 200, [output |-> LastStepOf(r).observation]) >>

C5_Witness ==
  \E r \in Reqs :
    /\ Fulfilled(r)
    /\ OutputOf(r) = Str("Sorry: agent stopped due to max iterations.")
    /\ StepsOf(r) = Arr(<< BareStep, SamosaStep >>)
    /\ Responses(r) = << Answer(200, "Samosa, Chutney, Tea, Biscuits") >>

\* C6: when executor.invoke returns, the output is absent or contains the
\* sentinel, and intermediateSteps is absent, empty, or ends in a step without
\* an observation, the answer is 500 with the "couldn't process" message and
\* nothing is logged as an error.
C6_IncompleteAnswer ==
  \A r \in Reqs :
    ( /\ Fulfilled(r)
      /\ NoPrimary(r)
      /\ \/ ~HasSteps(r)
         \/ (HasSteps(r) /\ "observation" \notin DOMAIN LastStepOf(r)) )
    => /\ Responses(r) =
            << Answer(500, "I couldn't process your request. Please try asking for a specific menu like 'breakfast menu' or 'evening snacks menu'.") >>
       /\ \A i \in 1..Len(trace[r]) :
            trace[r][i].ev = "console" => trace[r][i].level # "error"

\* an earlier step has an observation, the last one has none
C6_Witness ==
  \E r \in Reqs :
    /\ Fulfilled(r)
    /\ NoPrimary(r)
    /\ StepsOf(r) = Arr(<< ParathaStep, BareStep >>)
    /\ Len(Responses(r)) = 1
    /\ Responses(r)[1].status = 500

\* C7: the menu lookup returns a string, and for a category that, lower-cased
\* and trimmed, is not a known category and contains neither "evening" nor
\* "snack", that string is the fallback message.
C7_LookupReturnsString ==
  toolPc = "returned"
  => /\ toolResult.t = "string"
     /\ LET n == Trim(ToLowerCase(category))
        IN ( /\ n \notin {"breakfast", "lunch", "evening", "evening snacks", "dinner"}
             /\ ~Includes(n, "evening")
             /\ ~Includes(n, "snack") )
           => toolResult = Str("Sorry, we couldn't find the menu for that category. Available categories: breakfast, lunch, evening snacks, dinner")

EveningForms == CaseVariants("evening") \cup CaseVariants("snack")
BreakfastVariants == Variants("breakfast")
LunchVariants == Variants("lunch")
DinnerVariants == Variants("dinner")

\* C8: a category containing "evening" or "snack", in any letter case and at
\* any position, yields the evening entry.
C8_EveningCanonical ==
  toolPc = "returned"
  => ( (\E v \in EveningForms : Includes(category, v))
       => toolResult = Str("Samosa, Chutney, Tea, Biscuits") )

C8_Witness ==
  /\ toolPc = "returned"
  /\ category = "\tMy Evening Snacks Menu  "
  /\ toolResult = Str("Samosa, Chutney, Tea, Biscuits")

\* C9: breakfast, lunch and dinner, in any letter case and with surrounding
\* whitespace, yield the description configured for them.
C9_ExactCategories ==
  toolPc = "returned"
  => /\ category \in BreakfastVariants
          => toolResult = Str("Paratha, Tea, Fruits, Bread with Butter")
     /\ category \in LunchVariants
          => toolResult = Str("Rice, Dal, Curry, Roti, Salad")
     /\ category \in DinnerVariants
          => toolResult = Str("Biryani, Raita, Papad, Salad")

C9_Witness ==
  /\ toolPc = "returned"
  /\ category = " \tdInNeR\t"
  /\ toolResult = Str("Biryani, Raita, Papad, Salad")

\* C10: every request that has reached the handler, and whose call to
\* executor.invoke settles if it is made, eventually has exactly one response,
\* and never more than one.
C10_ExactlyOneResponse ==
  \A r \in Reqs :
    /\ [](pc[r] # "idle" => <>(Len(Responses(r)) = 1))
    /\ [](Len(Responses(r)) <= 1)

====
